---------------------------- MODULE Spec2Model ----------------------------
(***************************************************************************)
(* translator_po: batch translation of gettext catalogues.                 *)
(*                                                                         *)
(* The module holds several specifications over one set of variables:      *)
(*   Spec       the chunked multi-worker driver (PoFileProcessor), in its  *)
(*              thread-pool form (main.py) and its process-pool form       *)
(*              (po_file_processor.py)                                     *)
(*   SpecEntry  the placeholder masking of _translate_entry                *)
(*   SpecSplit  PoFileSplitter.split_po_file                               *)
(*   SpecMerge  PoFileMerger.merge_po_files                                *)
(*   SpecCache  CacheHandler and the cached _translate_entry               *)
(* Each specification leaves the variables of the others at their idle     *)
(* values.                                                                 *)
(***************************************************************************)
EXTENDS Integers, Sequences, FiniteSets, TLC

(***************************************************************************)
(* Bounds of the model                                                     *)
(***************************************************************************)
MaxEntries == 3
MaxJobs == 2
MaxRepeat == 10
MaxPieces == 2
ShortMaxLength == 4
MaxSplit == 3
MaxFiles == 3
MaxCacheEntries == 3
MaxSharedEntries == 1
MaxRunFiles == 2
MaxRunEntries == 1
MaxStandaloneEntries == 2
MaxSplitEntries == 10
MaxSplitNum == 10

\* DEFAULT_CONFIG["max_msgid_length"]
DefaultMaxMsgidLength == 300

Max(a, b) == IF a > b THEN a ELSE b
Min(a, b) == IF a < b THEN a ELSE b

RECURSIVE Flatten(_)
Flatten(ss) == IF ss = <<>> THEN <<>> ELSE Head(ss) \o Flatten(Tail(ss))

(***************************************************************************)
(* State of the driver                                                     *)
(***************************************************************************)
VARIABLES
    pool,                   \* "thread" (main.py) or "process" (po_file_processor.py)
    jobs,                   \* self.jobs
    po,                     \* the catalogue parsed from self.data
    chunks,                 \* the chunks submitted to the executor
    fut,                    \* state of the future of each chunk
    fres,                   \* the value a finished future holds
    yielded,                \* futures as_completed has handed to the loop
    wk,                     \* the workers of the pool
    translation_error_flag, \* the module global, one copy per process
    results,                \* the list the collecting loop appends to
    new_data,               \* self.new_data
    output,                 \* the output file
    pc,                     \* position of the main thread
    raised,                 \* history: a translator call has raised
    callsAfter,             \* history: calls a worker began after a failure
    calls                   \* history: translator calls per msgid

poolVars == <<pool, jobs, po, chunks, fut, fres, yielded, wk,
              translation_error_flag, results, new_data, output, pc,
              raised, callsAfter, calls>>

(***************************************************************************)
(* State of one call of _translate_entry (placeholder masking)             *)
(***************************************************************************)
VARIABLES
    msgid,                  \* entry.msgid, a sequence of characters
    msgstr,                 \* entry.msgstr
    translator,             \* which translation service answers
    max_msgid_length,       \* config["max_msgid_length"]
    sent,                   \* the texts handed to translator.translate
    epc,                    \* "idle", "ready" or "done"
    no_cache,               \* no_cache: the entry is translated without a cache handler
    cache_asked,            \* history: the texts handed to the cache handler
    msgstr_before           \* history: entry.msgstr when _translate_entry was called

entryVars == <<msgid, msgstr, translator, max_msgid_length, sent, epc, no_cache,
               cache_asked, msgstr_before>>

(***************************************************************************)
(* State of PoFileSplitter.split_po_file                                   *)
(***************************************************************************)
VARIABLES
    split_po,               \* the catalogue parsed from the file to split
    num_split,              \* self.num_split
    split_chunks,           \* the chunks of split_po_file
    parts,                  \* the part files written so far, in order
    spc                     \* "idle", "split", "write" or "done"

splitVars == <<split_po, num_split, split_chunks, parts, spc>>

(***************************************************************************)
(* State of PoFileMerger.merge_po_files                                    *)
(***************************************************************************)
VARIABLES
    merger,                 \* "listdir" (main.py) or "walk" (po_file_merger.py)
    folder,                 \* the files under folder_path: path -> entries
    listing,                \* the files the loop has still to visit
    merged_po,              \* the catalogue being built
    merged_file,            \* the file saved at output_file
    mpc                     \* "idle", "merge", "loop" or "done"

mergeVars == <<merger, folder, listing, merged_po, merged_file, mpc>>

(***************************************************************************)
(* State of the cache (CacheHandler) and of the cached _translate_entry    *)
(***************************************************************************)
VARIABLES
    stores,                 \* the files cache_<n>.db: n -> [size, rows]
    hpc,                    \* position of the owner of each handler
    db_path,                \* self.db_path, as the index n of cache_<n>.db
    conn,                   \* self.local.conn: "unset", "open" or "None"
    cursor,                 \* the store self.local.cursor is bound to
    uncommitted,            \* rows written through the cursor, not committed
    temp_msgid,             \* the masked text of the entry being translated
    cached_translation,     \* what get_translation returned for it
    translated_text,        \* the text to be written to msgstr
    cache_msgstr,           \* msgstr of the entry last translated
    found,                  \* history: the store held a record at the lookup
    translatorCalls,        \* history: translator calls for the current entry
    rotated,                \* history: the handler has rotated
    saveFailed,             \* history: a save_translation has raised
    expected,               \* history: request -> the text last stored for it
    savedRequests,          \* history: the requests saved through the handler
    entriesDone             \* history: entries the handler's owner has finished

cacheVars == <<stores, hpc, db_path, conn, cursor, uncommitted, temp_msgid,
               cached_translation, translated_text, cache_msgstr, found,
               translatorCalls, rotated, saveFailed, expected, savedRequests,
               entriesDone>>

(***************************************************************************)
(* State of one run of the program over a folder (process_files_in_folder, *)
(* and the loop of main() in the standalone translator_po.py)              *)
(***************************************************************************)
VARIABLES
    program,                \* "main" (the package) or "standalone" (translator_po.py)
    folder_listing,         \* os.listdir(folder_path): the files, in its order
    files,                  \* the files the loop goes through
    force,                  \* self.force
    odoo_output,            \* self.odoo_output
    disk,                   \* the files under output_folder: path -> content
    error_flag,             \* translation_error_flag of the main process
    file_index,             \* how many files the loop has taken
    rpc,                    \* "idle", "list", "loop" or "done"
    file_log                \* history: what happened to each file taken

runVars == <<program, folder_listing, files, force, odoo_output, disk,
             error_flag, file_index, rpc, file_log>>

(***************************************************************************)
(* State of the creation of a ConfigHandler                                *)
(***************************************************************************)
VARIABLES
    config_file,            \* the argument config_file
    cli_config_path,        \* the argument cli_config_path
    installed,              \* __file__ is under a site-packages directory
    config_dir,             \* self.config_dir
    config_path,            \* self.config_path
    config,                 \* self.config
    fs_dirs,                \* the directories of the file system
    fs_files,               \* the files of the file system: path -> content
    files_before,           \* history: fs_files when the handler was created
    cpc                     \* "idle", "init", "load", "read", "done" or "raised"

confVars == <<config_file, cli_config_path, installed, config_dir, config_path,
              config, fs_dirs, fs_files, files_before, cpc>>

vars == <<poolVars, entryVars, splitVars, mergeVars, cacheVars, runVars, confVars>>

nonPoolVars == <<entryVars, splitVars, mergeVars, cacheVars, runVars, confVars>>
nonEntryVars == <<poolVars, splitVars, mergeVars, cacheVars, runVars, confVars>>
nonSplitVars == <<poolVars, entryVars, mergeVars, cacheVars, runVars, confVars>>
nonMergeVars == <<poolVars, entryVars, splitVars, cacheVars, runVars, confVars>>
nonCacheVars == <<poolVars, entryVars, splitVars, mergeVars, runVars, confVars>>
nonRunVars == <<poolVars, entryVars, splitVars, mergeVars, cacheVars, confVars>>
nonConfVars == <<poolVars, entryVars, splitVars, mergeVars, cacheVars, runVars>>

\* the workers an executor could start: one more than the largest jobs, of
\* which the executor uses the first jobs
Workers == 1 .. MaxJobs + 1
MainProc == 0

\* the signal handler of main.py sets shutdown_flag and leaves the program
\* with os._exit(1) at once; po_file_processor.py never sets it
shutdown_flag == FALSE

None == [kind |-> "None"]
Absent == [kind |-> "absent"]

Untranslated == <<>>
OldTranslation(id) == <<"old", id>>

\* what the external translation service answers for a text
TranslatorOutput(text) == <<"tr", text>>

Entry(id, str) == [msgid |-> id, msgstr |-> str]

\* the catalogues of the model: entry i is already translated or not
Catalogues ==
    UNION { { [i \in 1 .. n |-> Entry(i, IF t[i] THEN OldTranslation(i) ELSE Untranslated)]
              : t \in [1 .. n -> BOOLEAN] } : n \in 0 .. MaxEntries }

\* polib: POFile.untranslated_entries
untranslated_entries(cat) == SelectSeq(cat, LAMBDA e : e.msgstr = Untranslated)

\* chunks = [entries[i : i + chunk_size] for i in range(0, len(entries), chunk_size)]
ChunksDropRemainder(entries, n) ==
    LET chunk_size == Max(1, Len(entries) \div n)
        count == Min(n, Len(entries))
    IN  [k \in 1 .. count |->
            SubSeq(entries, (k - 1) * chunk_size + 1, Min(k * chunk_size, Len(entries)))]

Chunks(entries, n) ==
    LET chunk_size == Max(1, Len(entries) \div n)
        count == (Len(entries) + chunk_size - 1) \div chunk_size
    IN  [k \in 1 .. count |->
            SubSeq(entries, (k - 1) * chunk_size + 1, Min(k * chunk_size, Len(entries)))]

\* the copy of translation_error_flag a process reads and writes: the threads
\* of a ThreadPoolExecutor share the module global of the main thread, every
\* process of a ProcessPoolExecutor has its own
FlagHome(p) == IF pool = "thread" THEN MainProc ELSE p
Flag(p) == translation_error_flag[FlagHome(p)]

IdleWorker == [chunk |-> 0, pos |-> 0, pc |-> "idle", acc |-> <<>>]

\* an as_completed that hands over the futures that returned only
FinishedWhenDone(c) == fut[c] = "done"

\* as_completed hands over a future that returned, raised or was cancelled
Finished(c) == fut[c] \in {"done", "failed", "cancelled"}

\* executor.shutdown(wait=False, cancel_futures=True): the futures still
\* pending are cancelled. A ThreadPoolExecutor empties its work queue; a
\* ProcessPoolExecutor cannot take back the calls it has already put on the
\* call queue of its workers (at most jobs + 1 of them), which still run.
Queued ==
    IF pool = "thread" THEN {{}}
    ELSE {q \in SUBSET {c \in DOMAIN fut : fut[c] = "pending"} : Cardinality(q) <= jobs + 1}

CancelFutures(keep) ==
    [c \in DOMAIN fut |-> IF fut[c] = "pending" /\ c \notin keep THEN "cancelled" ELSE fut[c]]

IdlePool ==
    /\ pool = "none"
    /\ jobs = 0
    /\ po = <<>>
    /\ chunks = <<>>
    /\ fut = <<>>
    /\ fres = <<>>
    /\ yielded = {}
    /\ wk = <<>>
    /\ translation_error_flag = <<>>
    /\ results = <<>>
    /\ new_data = None
    /\ output = Absent
    /\ pc = "idle"
    /\ raised = FALSE
    /\ callsAfter = <<>>
    /\ calls = <<>>

IdleEntry ==
    /\ msgid = <<>>
    /\ msgstr = <<>>
    /\ translator = "none"
    /\ max_msgid_length = 0
    /\ sent = <<>>
    /\ epc = "idle"
    /\ no_cache = TRUE
    /\ cache_asked = <<>>
    /\ msgstr_before = <<>>

IdleSplit ==
    /\ split_po = <<>>
    /\ num_split = 0
    /\ split_chunks = <<>>
    /\ parts = <<>>
    /\ spc = "idle"

IdleMerge ==
    /\ merger = "none"
    /\ folder = <<>>
    /\ listing = {}
    /\ merged_po = <<>>
    /\ merged_file = Absent
    /\ mpc = "idle"

IdleCache ==
    /\ stores = <<>>
    /\ hpc = <<>>
    /\ db_path = <<>>
    /\ conn = <<>>
    /\ cursor = <<>>
    /\ uncommitted = <<>>
    /\ temp_msgid = <<>>
    /\ cached_translation = <<>>
    /\ translated_text = <<>>
    /\ cache_msgstr = <<>>
    /\ found = <<>>
    /\ translatorCalls = <<>>
    /\ rotated = <<>>
    /\ saveFailed = <<>>
    /\ expected = <<>>
    /\ savedRequests = <<>>
    /\ entriesDone = <<>>

IdleRun ==
    /\ program = "none"
    /\ folder_listing = <<>>
    /\ files = <<>>
    /\ force = FALSE
    /\ odoo_output = FALSE
    /\ disk = <<>>
    /\ error_flag = FALSE
    /\ file_index = 0
    /\ rpc = "idle"
    /\ file_log = <<>>

IdleConf ==
    /\ config_file = <<>>
    /\ cli_config_path = <<>>
    /\ installed = FALSE
    /\ config_dir = <<>>
    /\ config_path = <<>>
    /\ config = <<>>
    /\ fs_dirs = {}
    /\ fs_files = <<>>
    /\ files_before = <<>>
    /\ cpc = "idle"

InitPool ==
    /\ pool \in {"thread", "process"}
    /\ jobs \in 1 .. MaxJobs
    /\ po \in Catalogues
    /\ chunks = <<>>
    /\ fut = <<>>
    /\ fres = <<>>
    /\ yielded = {}
    /\ wk = [w \in Workers |-> IdleWorker]
    /\ translation_error_flag = [p \in {MainProc} \cup Workers |-> FALSE]
    /\ results = <<>>
    /\ new_data = None
    /\ output = Absent
    /\ pc = "translate"
    /\ raised = FALSE
    /\ callsAfter = [w \in Workers |-> 0]
    /\ calls = [i \in 1 .. MaxEntries |-> 0]

\* translate_po_file: the catalogue is parsed, cut into chunks and every
\* chunk is submitted to the executor
Submit ==
    /\ pc = "translate"
    /\ chunks' = Chunks(untranslated_entries(po), jobs)
    /\ fut' = [c \in DOMAIN chunks' |-> "pending"]
    /\ fres' = [c \in DOMAIN chunks' |-> <<>>]
    /\ pc' = "collect"
    /\ UNCHANGED <<pool, jobs, po, yielded, wk, translation_error_flag, results,
                   new_data, output, raised, callsAfter, calls>>
    /\ UNCHANGED nonPoolVars

\* an executor that starts a worker for every call submitted
AnyWorker(w) == w \in Workers

\* ProcessPoolExecutor(max_workers=self.jobs): the executor has jobs workers
InPool(w) == w <= jobs

\* _translate_entries_chunk, entry: a free worker takes a pending chunk
StartChunk(w, c) ==
    /\ pc \in {"collect", "join"}
    /\ InPool(w)
    /\ wk[w].pc = "idle"
    /\ c \in DOMAIN fut
    /\ fut[c] = "pending"
    /\ IF shutdown_flag \/ Flag(w)
       THEN /\ fut' = [fut EXCEPT ![c] = "done"]
            /\ fres' = [fres EXCEPT ![c] = <<>>]
            /\ wk' = wk
       ELSE /\ fut' = [fut EXCEPT ![c] = "running"]
            /\ fres' = fres
            /\ wk' = [wk EXCEPT ![w] = [chunk |-> c, pos |-> 1, pc |-> "check", acc |-> <<>>]]
    /\ UNCHANGED <<pool, jobs, po, chunks, yielded, translation_error_flag, results,
                   new_data, output, pc, raised, callsAfter, calls>>
    /\ UNCHANGED nonPoolVars

\* the head of the loop over the chunk: the flag is read before every entry
CheckFlag(w) ==
    /\ wk[w].pc = "check"
    /\ LET c == wk[w].chunk IN
       IF wk[w].pos > Len(chunks[c]) \/ Flag(w)
       THEN /\ fut' = [fut EXCEPT ![c] = "done"]
            /\ fres' = [fres EXCEPT ![c] = wk[w].acc]
            /\ wk' = [wk EXCEPT ![w] = IdleWorker]
       ELSE /\ wk' = [wk EXCEPT ![w].pc = "call"]
            /\ UNCHANGED <<fut, fres>>
    /\ UNCHANGED <<pool, jobs, po, chunks, yielded, translation_error_flag, results,
                   new_data, output, pc, raised, callsAfter, calls>>
    /\ UNCHANGED nonPoolVars

\* _translate_entry: the translator answers
TranslateEntryOk(w) ==
    /\ wk[w].pc = "call"
    /\ LET c == wk[w].chunk
           e == chunks[c][wk[w].pos]
       IN  /\ wk' = [wk EXCEPT ![w].acc = Append(@, Entry(e.msgid, TranslatorOutput(e.msgid))),
                               ![w].pos = @ + 1,
                               ![w].pc = "check"]
           /\ calls' = [calls EXCEPT ![e.msgid] = @ + 1]
    /\ callsAfter' = [callsAfter EXCEPT ![w] = IF raised THEN @ + 1 ELSE @]
    /\ UNCHANGED <<pool, jobs, po, chunks, fut, fres, yielded, translation_error_flag,
                   results, new_data, output, pc, raised>>
    /\ UNCHANGED nonPoolVars

\* _translate_entry with a translator call that is made again after it raised
TranslateEntryRaiseAndRetry(w) ==
    /\ wk[w].pc = "call"
    /\ LET e == chunks[wk[w].chunk][wk[w].pos]
       IN  calls' = [calls EXCEPT ![e.msgid] = @ + 1]
    /\ translation_error_flag' = [translation_error_flag EXCEPT ![FlagHome(w)] = TRUE]
    /\ raised' = TRUE
    /\ callsAfter' = [callsAfter EXCEPT ![w] = IF raised THEN @ + 1 ELSE @]
    /\ UNCHANGED <<pool, jobs, po, chunks, fut, fres, yielded, wk, results, new_data,
                   output, pc>>
    /\ UNCHANGED nonPoolVars

\* _translate_entry: the translator raises; the flag is set and the
\* exception leaves the chunk
TranslateEntryRaise(w) ==
    /\ wk[w].pc = "call"
    /\ LET c == wk[w].chunk
           e == chunks[c][wk[w].pos]
       IN  /\ fut' = [fut EXCEPT ![c] = "failed"]
           /\ calls' = [calls EXCEPT ![e.msgid] = @ + 1]
    /\ translation_error_flag' = [translation_error_flag EXCEPT ![FlagHome(w)] = TRUE]
    /\ wk' = [wk EXCEPT ![w] = IdleWorker]
    /\ raised' = TRUE
    /\ callsAfter' = [callsAfter EXCEPT ![w] = IF raised THEN @ + 1 ELSE @]
    /\ UNCHANGED <<pool, jobs, po, chunks, fres, yielded, results, new_data, output, pc>>
    /\ UNCHANGED nonPoolVars

\* the collecting loop finds the flag set when as_completed hands it a future
CollectStop(c) ==
    /\ pc = "collect"
    /\ c \in DOMAIN fut /\ c \notin yielded /\ Finished(c)
    /\ shutdown_flag \/ Flag(MainProc)
    /\ \E keep \in Queued : fut' = CancelFutures(keep)
    /\ pc' = "join"
    /\ yielded' = yielded \cup {c}
    /\ UNCHANGED <<pool, jobs, po, chunks, fres, wk, translation_error_flag, results,
                   new_data, output, raised, callsAfter, calls>>
    /\ UNCHANGED nonPoolVars

\* future.result() returns: the result is appended
CollectResult(c) ==
    /\ pc = "collect"
    /\ c \in DOMAIN fut /\ c \notin yielded /\ fut[c] = "done"
    /\ ~(shutdown_flag \/ Flag(MainProc))
    /\ results' = Append(results, fres[c])
    /\ yielded' = yielded \cup {c}
    /\ UNCHANGED <<pool, jobs, po, chunks, fut, fres, wk, translation_error_flag,
                   new_data, output, pc, raised, callsAfter, calls>>
    /\ UNCHANGED nonPoolVars

\* future.result() raises: the except branch, with the flag left as it is
CollectRaiseSwallow(c) ==
    /\ pc = "collect"
    /\ c \in DOMAIN fut /\ c \notin yielded /\ fut[c] = "failed"
    /\ ~(shutdown_flag \/ Flag(MainProc))
    /\ \E keep \in Queued : fut' = CancelFutures(keep)
    /\ pc' = "join"
    /\ yielded' = yielded \cup {c}
    /\ UNCHANGED <<pool, jobs, po, chunks, fres, wk, translation_error_flag, results,
                   new_data, output, raised, callsAfter, calls>>
    /\ UNCHANGED nonPoolVars

\* future.result() raises: the except branch sets the flag and leaves the loop
CollectRaise(c) ==
    /\ pc = "collect"
    /\ c \in DOMAIN fut /\ c \notin yielded /\ fut[c] = "failed"
    /\ ~(shutdown_flag \/ Flag(MainProc))
    /\ translation_error_flag' = [translation_error_flag EXCEPT ![MainProc] = TRUE]
    /\ \E keep \in Queued : fut' = CancelFutures(keep)
    /\ pc' = "join"
    /\ yielded' = yielded \cup {c}
    /\ UNCHANGED <<pool, jobs, po, chunks, fres, wk, results,
                   new_data, output, raised, callsAfter, calls>>
    /\ UNCHANGED nonPoolVars

\* as_completed is exhausted: every future has been handed to the loop
CollectEnd ==
    /\ pc = "collect"
    /\ yielded = DOMAIN fut
    /\ pc' = "join"
    /\ UNCHANGED <<pool, jobs, po, chunks, fut, fres, yielded, wk, translation_error_flag,
                   results, new_data, output, raised, callsAfter, calls>>
    /\ UNCHANGED nonPoolVars

\* leaving the with block waits for the running chunks; then the results are
\* put back into the catalogue, whatever the flags say
AssembleWhateverTheFlags ==
    /\ pc = "join"
    /\ \A c \in DOMAIN fut : fut[c] \notin {"pending", "running"}
    /\ new_data' = [kind |-> "po", entries |-> Flatten(results)]
    /\ pc' = "write"
    /\ UNCHANGED <<pool, jobs, po, chunks, fut, fres, yielded, wk, translation_error_flag,
                   results, output, raised, callsAfter, calls>>
    /\ UNCHANGED nonPoolVars

\* leaving the with block waits for the running chunks; then the results are
\* put back into the catalogue unless a flag is set
Assemble ==
    /\ pc = "join"
    /\ \A c \in DOMAIN fut : fut[c] \notin {"pending", "running"}
    /\ new_data' = IF ~shutdown_flag /\ ~Flag(MainProc)
                   THEN [kind |-> "po", entries |-> Flatten(results)]
                   ELSE new_data
    /\ pc' = "write"
    /\ UNCHANGED <<pool, jobs, po, chunks, fut, fres, yielded, wk, translation_error_flag,
                   results, output, raised, callsAfter, calls>>
    /\ UNCHANGED nonPoolVars

\* write_output_file
WriteOutputFile ==
    /\ pc = "write"
    /\ output' = IF new_data = None THEN output ELSE new_data
    /\ pc' = "done"
    /\ UNCHANGED <<pool, jobs, po, chunks, fut, fres, yielded, wk, translation_error_flag,
                   results, new_data, raised, callsAfter, calls>>
    /\ UNCHANGED nonPoolVars

NextPool ==
    \/ Submit
    \/ \E w \in Workers, c \in 1 .. MaxEntries : StartChunk(w, c)
    \/ \E w \in Workers : CheckFlag(w)
    \/ \E w \in Workers : TranslateEntryOk(w)
    \/ \E w \in Workers : TranslateEntryRaise(w)
    \/ \E c \in 1 .. MaxEntries : CollectStop(c)
    \/ \E c \in 1 .. MaxEntries : CollectResult(c)
    \/ \E c \in 1 .. MaxEntries : CollectRaise(c)
    \/ CollectEnd
    \/ Assemble
    \/ WriteOutputFile

Init == InitPool /\ IdleEntry /\ IdleSplit /\ IdleMerge /\ IdleCache /\ IdleRun /\ IdleConf

Next == NextPool

Spec == Init /\ [][Next]_vars

\* the driver with a scheduler that lets every enabled step happen: the
\* translator calls return or raise, threads and processes get to run
SpecLive == Init /\ [][Next]_vars /\ WF_vars(Next)

(***************************************************************************)
(* _translate_entry: placeholder masking                                   *)
(***************************************************************************)

\* the characters \w of the regular expression matches, among those of the model
WordChars == {"a", "d", "n", "s", "t", "P", "L", "A", "C", "E", "H", "O", "D", "R", "_",
              "0", "1", "2", "3", "4", "5", "6", "7", "8", "9"}

Digit(d) == <<"0", "1", "2", "3", "4", "5", "6", "7", "8", "9">>[d + 1]

\* str(i)
RECURSIVE Str(_)
Str(i) == IF i < 10 THEN <<Digit(i)>> ELSE Str(i \div 10) \o <<Digit(i % 10)>>

\* f'PLACEHOLDER_{i}'
PlaceholderMarker(i) ==
    <<"P", "L", "A", "C", "E", "H", "O", "L", "D", "E", "R", "_">> \o Str(i)

\* the index after the longest run of \w characters of s that starts at i
RECURSIVE WordRunEnd(_, _)
WordRunEnd(s, i) ==
    IF i <= Len(s) /\ s[i] \in WordChars THEN WordRunEnd(s, i + 1) ELSE i

\* the length of the match of %\(\w+\)s|%\w|%% at position i of s, 0 for none
MatchLen(s, i) ==
    IF s[i] # "%" \/ i + 1 > Len(s) THEN 0
    ELSE LET j == WordRunEnd(s, i + 2)
         IN  IF s[i + 1] = "(" /\ j > i + 2 /\ j + 1 <= Len(s) /\ s[j] = ")" /\ s[j + 1] = "s"
             THEN j + 2 - i
             ELSE IF s[i + 1] \in WordChars \/ s[i + 1] = "%" THEN 2 ELSE 0

\* re.findall(r'%\(\w+\)s|%\w|%%', s), scanning from position i
RECURSIVE FindAllFrom(_, _)
FindAllFrom(s, i) ==
    IF i > Len(s) THEN <<>>
    ELSE LET n == MatchLen(s, i)
         IN  IF n = 0 THEN FindAllFrom(s, i + 1)
             ELSE <<SubSeq(s, i, i + n - 1)>> \o FindAllFrom(s, i + n)

FindAll(s) == FindAllFrom(s, 1)

\* s.find(old) + 1: the position of the first occurrence of old in s, 0 for none
FirstIndex(s, old) ==
    LET found_at == {i \in 1 .. (Len(s) - Len(old) + 1) : SubSeq(s, i, i + Len(old) - 1) = old}
    IN  IF found_at = {} THEN 0 ELSE CHOOSE i \in found_at : \A j \in found_at : i <= j

\* s.replace(old, new): every occurrence of old, left to right, not overlapping
RECURSIVE Replace(_, _, _)
Replace(s, old, new) ==
    LET i == FirstIndex(s, old)
    IN  IF i = 0 THEN s
        ELSE SubSeq(s, 1, i - 1) \o new \o Replace(SubSeq(s, i + Len(old), Len(s)), old, new)

\* the loop that replaces placeholder i by PLACEHOLDER_i, from index i on
RECURSIVE MaskFrom(_, _, _)
MaskFrom(temp, placeholders, i) ==
    IF i >= Len(placeholders) THEN temp
    ELSE MaskFrom(Replace(temp, placeholders[i + 1], PlaceholderMarker(i)), placeholders, i + 1)

Mask(text) == MaskFrom(text, FindAll(text), 0)

\* the loop over placeholder_map.items(): the markers in the order they were
\* inserted, each replaced by its placeholder
RECURSIVE RestoreFrom(_, _, _)
RestoreFrom(text, placeholders, i) ==
    IF i >= Len(placeholders) THEN text
    ELSE RestoreFrom(Replace(text, PlaceholderMarker(i), placeholders[i + 1]), placeholders, i + 1)

Restore(text, placeholders) == RestoreFrom(text, placeholders, 0)

\* translation services that leave the markers of their input intact: one
\* answers its input, one puts a word in front of it
Translators == {"identity", "prefix"}
Translate(tr, text) == IF tr = "prefix" THEN <<"t", " ">> \o text ELSE text

RECURSIVE Repeat(_, _)
Repeat(s, k) == IF k = 0 THEN <<>> ELSE s \o Repeat(s, k - 1)

\* the texts of the model: a placeholder repeated, then up to MaxPieces pieces
PlaceholderPieces == {<<"%", "s">>, <<"%", "d">>, <<"%", "%">>, <<"%", "(", "n", ")", "s">>}
Pieces == PlaceholderPieces \cup {<<"a">>, <<" ">>, <<"%">>, <<"s">>}

RECURSIVE PieceStrings(_)
PieceStrings(n) ==
    IF n = 0 THEN {<<>>}
    ELSE LET shorter == PieceStrings(n - 1)
         IN  shorter \cup {p \o t : p \in Pieces, t \in shorter}

Msgids ==
    {Repeat(p, k) \o t : p \in PlaceholderPieces, k \in 0 .. MaxRepeat, t \in PieceStrings(MaxPieces)}

InitEntry ==
    /\ msgid \in Msgids
    /\ msgstr = <<>>
    /\ translator \in Translators
    /\ max_msgid_length \in {ShortMaxLength, DefaultMaxMsgidLength}
    /\ sent = <<>>
    /\ epc = "ready"
    /\ no_cache = TRUE
    /\ cache_asked = <<>>
    /\ msgstr_before = msgstr

\* len(entry.msgid) >= the maximum
AsLongAs(text, maximum) == Len(text) >= maximum

\* len(entry.msgid) > self.config.get("max_msgid_length", 300)
LongerThan(text, maximum) == Len(text) > maximum

\* _translate_entry without a cache handler, with a translator that answers
TranslateEntry ==
    /\ epc = "ready"
    /\ no_cache
    /\ IF LongerThan(msgid, max_msgid_length)
       THEN UNCHANGED <<msgstr, sent>>
       ELSE LET placeholders == FindAll(msgid)
                masked == MaskFrom(msgid, placeholders, 0)
                answer == Translate(translator, masked)
            IN  /\ sent' = Append(sent, masked)
                /\ msgstr' = Restore(answer, placeholders)
    /\ epc' = "done"
    /\ UNCHANGED <<msgid, translator, max_msgid_length, no_cache, cache_asked, msgstr_before>>
    /\ UNCHANGED nonEntryVars

NextEntry == TranslateEntry

EntryStart == InitEntry /\ IdlePool /\ IdleSplit /\ IdleMerge /\ IdleCache /\ IdleRun /\ IdleConf

SpecEntry == EntryStart /\ [][NextEntry]_vars

(***************************************************************************)
(* _translate_entry with and without a cache handler, for msgids about as  *)
(* long as max_msgid_length                                                *)
(***************************************************************************)

RECURSIVE StringsUpTo(_)
StringsUpTo(n) ==
    IF n = 0 THEN {<<>>}
    ELSE LET shorter == StringsUpTo(n - 1)
         IN  shorter \cup {Append(t, ch) : t \in shorter, ch \in {"a", "%", "s"}}

\* what get_translation may answer: None, an empty text, a text
CachedAnswers == {<<"None">>, <<>>, <<"x">>}

InitLength ==
    /\ msgid \in StringsUpTo(ShortMaxLength + 1)
    /\ msgstr \in {<<>>, <<"o">>}
    /\ translator \in Translators
    /\ max_msgid_length \in {ShortMaxLength, DefaultMaxMsgidLength}
    /\ sent = <<>>
    /\ epc = "ready"
    /\ no_cache \in BOOLEAN
    /\ cache_asked = <<>>
    /\ msgstr_before = msgstr

\* _translate_entry with a cache handler: get_translation answers cached; on
\* a miss the translator answers and save_translation is called
TranslateEntryCached(cached) ==
    /\ epc = "ready"
    /\ ~no_cache
    /\ IF LongerThan(msgid, max_msgid_length)
       THEN UNCHANGED <<msgstr, sent, cache_asked>>
       ELSE LET placeholders == FindAll(msgid)
                masked == MaskFrom(msgid, placeholders, 0)
            IN  IF cached # <<"None">> /\ cached # <<>>
                THEN /\ cache_asked' = Append(cache_asked, masked)
                     /\ sent' = sent
                     /\ msgstr' = Restore(cached, placeholders)
                ELSE /\ cache_asked' = cache_asked \o <<masked, masked>>
                     /\ sent' = Append(sent, masked)
                     /\ msgstr' = Restore(Translate(translator, masked), placeholders)
    /\ epc' = "done"
    /\ UNCHANGED <<msgid, translator, max_msgid_length, no_cache, msgstr_before>>
    /\ UNCHANGED nonEntryVars

NextLength ==
    \/ TranslateEntry
    \/ \E cached \in CachedAnswers : TranslateEntryCached(cached)

LengthStart == InitLength /\ IdlePool /\ IdleSplit /\ IdleMerge /\ IdleCache /\ IdleRun /\ IdleConf

SpecLength == LengthStart /\ [][NextLength]_vars

\* C17: an entry whose msgid is longer than max_msgid_length is handed
\* neither to the translator nor to the cache and is returned with its msgstr
\* as it was; an entry whose msgid is exactly that long is translated: its
\* masked msgid goes to the cache or to the translator.
C17_MaxLength ==
    epc = "done" =>
        /\ Len(msgid) > max_msgid_length =>
              sent = <<>> /\ cache_asked = <<>> /\ msgstr = msgstr_before
        /\ Len(msgid) = max_msgid_length =>
              /\ no_cache => sent = <<Mask(msgid)>>
              /\ ~no_cache => cache_asked # <<>> /\ cache_asked[1] = Mask(msgid)
              /\ sent = <<>> => msgstr = Restore(<<"x">>, FindAll(msgid))
              /\ sent # <<>> => msgstr = Restore(Translate(translator, Mask(msgid)), FindAll(msgid))

C17_Witness ==
    /\ epc = "done"
    /\ Len(msgid) = max_msgid_length + 1
    /\ msgstr_before # <<>>
    /\ ~no_cache

\* C1: for an entry not longer than max_msgid_length, with a translator that
\* leaves every marker intact, msgstr has every placeholder back in its place:
\* it is the translator's answer for msgid itself (msgid, for the identity).
C1_PlaceholderRoundTrip ==
    (epc = "done" /\ Len(msgid) <= max_msgid_length) => msgstr = Translate(translator, msgid)

(***************************************************************************)
(* PoFileSplitter.split_po_file                                            *)
(***************************************************************************)

\* chunks = [entries[i : i + chunk_size] for i in range(0, len(entries), chunk_size)]
\* with chunk_size = max(1, len(entries) // self.num_split)
SplitChunks(entries, n) ==
    LET chunk_size == Max(1, Len(entries) \div n)
        count == (Len(entries) + chunk_size - 1) \div chunk_size
    IN  [k \in 1 .. count |->
            SubSeq(entries, (k - 1) * chunk_size + 1, Min(k * chunk_size, Len(entries)))]

\* text.zfill(width)
RECURSIVE ZFill(_, _)
ZFill(text, width) == IF Len(text) >= width THEN text ELSE ZFill(<<"0">> \o text, width)

\* os.path.splitext(self.file_name)[0] of the file that is split
SplitStem == <<"f">>

\* the number of part i: str(i).zfill(width) with width = len(str(self.num_split))
PartNumber(i, n) == ZFill(Str(i), Len(Str(n)))

\* f"{os.path.splitext(self.file_name)[0]}_part_{str(i + 1).zfill(width)}.po",
\* for the part counted from one
OutputFileName(i, n) ==
    SplitStem \o <<"_", "p", "a", "r", "t", "_">> \o PartNumber(i, n) \o <<".", "p", "o">>

InitSplit ==
    /\ split_po \in Catalogues
    /\ num_split \in 1 .. MaxSplit
    /\ split_chunks = <<>>
    /\ parts = <<>>
    /\ spc = "split"

\* split_po_file up to the loop: nothing is done for a file without data
SplitPoFile ==
    /\ spc = "split"
    /\ IF split_po = <<>>
       THEN /\ spc' = "done"
            /\ UNCHANGED split_chunks
       ELSE /\ split_chunks' = SplitChunks(untranslated_entries(split_po), num_split)
            /\ spc' = "write"
    /\ UNCHANGED <<split_po, num_split, parts>>
    /\ UNCHANGED nonSplitVars

\* one turn of the loop: chunk i is saved as part i + 1
SavePart ==
    /\ spc = "write"
    /\ Len(parts) < Len(split_chunks)
    /\ parts' = Append(parts, [index |-> Len(parts) + 1,
                               name |-> OutputFileName(Len(parts) + 1, num_split),
                               entries |-> split_chunks[Len(parts) + 1]])
    /\ UNCHANGED <<split_po, num_split, split_chunks, spc>>
    /\ UNCHANGED nonSplitVars

SplitEnd ==
    /\ spc = "write"
    /\ Len(parts) = Len(split_chunks)
    /\ spc' = "done"
    /\ UNCHANGED <<split_po, num_split, split_chunks, parts>>
    /\ UNCHANGED nonSplitVars

NextSplit == SplitPoFile \/ SavePart \/ SplitEnd

SplitStart == InitSplit /\ IdlePool /\ IdleEntry /\ IdleMerge /\ IdleCache /\ IdleRun /\ IdleConf

SpecSplit == SplitStart /\ [][NextSplit]_vars

RECURSIVE SumLen(_)
SumLen(ps) == IF ps = <<>> THEN 0 ELSE Len(Head(ps).entries) + SumLen(Tail(ps))

\* C5: the entry counts of the part files sum to the entry count of the
\* original file, and every original entry is in exactly one part.
C5_SplitConservesEntries ==
    spc = "done" =>
        /\ SumLen(parts) = Len(split_po)
        /\ \A i \in DOMAIN split_po :
              Cardinality({<<p, j>> \in (DOMAIN parts) \X (1 .. MaxEntries) :
                              /\ j \in DOMAIN parts[p].entries
                              /\ parts[p].entries[j] = split_po[i]}) = 1

\* C6: with at least num_split entries to split, exactly num_split part
\* files are written.
C6_SplitIntoNFiles ==
    (spc = "done" /\ Len(untranslated_entries(split_po)) >= num_split) =>
        Len(parts) = num_split

(***************************************************************************)
(* The names of the part files, for catalogues of up to MaxSplitEntries    *)
(* untranslated entries                                                    *)
(***************************************************************************)

InitSplitNames ==
    /\ split_po \in {[i \in 1 .. n |-> Entry(i, Untranslated)] : n \in 0 .. MaxSplitEntries}
    /\ num_split \in 1 .. MaxSplitNum
    /\ split_chunks = <<>>
    /\ parts = <<>>
    /\ spc = "split"

SplitNamesStart ==
    InitSplitNames /\ IdlePool /\ IdleEntry /\ IdleMerge /\ IdleCache /\ IdleRun /\ IdleConf

SpecSplitNames == SplitNamesStart /\ [][NextSplit]_vars

\* the code point of a character of a part file name
Ord(ch) ==
    CASE ch = "." -> 46
      [] ch = "_" -> 95
      [] ch \in {Digit(d) : d \in 0 .. 9} -> 48 + (CHOOSE d \in 0 .. 9 : Digit(d) = ch)
      [] OTHER -> 97 + (CHOOSE k \in 1 .. 6 : <<"a", "f", "o", "p", "r", "t">>[k] = ch)

\* a < b for two strings, as sorted() and ls order file names
LexLess(a, b) ==
    \E k \in 1 .. (Min(Len(a), Len(b)) + 1) :
        /\ SubSeq(a, 1, k - 1) = SubSeq(b, 1, k - 1)
        /\ IF k > Len(a) THEN k <= Len(b)
           ELSE k <= Len(b) /\ Ord(a[k]) < Ord(b[k])

\* the digits of the name of a part file
SuffixOf(name) == SubSeq(name, Len(SplitStem) + 7, Len(name) - 3)

\* C20: the part files written by split_po_file have pairwise distinct
\* names, the number in every name is padded with zeros to the number of
\* digits of num_split, and the names sort in the order of the parts.
C20_ZeroPaddedNames ==
    \A i, j \in DOMAIN parts :
        /\ Len(SuffixOf(parts[i].name)) = Len(Str(num_split))
        /\ i < j => /\ parts[i].name # parts[j].name
                    /\ LexLess(parts[i].name, parts[j].name)

(***************************************************************************)
(* PoFileMerger.merge_po_files                                             *)
(***************************************************************************)

\* file_name.endswith(suffix), taking the suffix followed by "t" as well
EndsWithPoOrPot(name, suffix) ==
    \E sfx \in {suffix, suffix \o <<"t">>} :
        /\ Len(name) >= Len(sfx)
        /\ SubSeq(name, Len(name) - Len(sfx) + 1, Len(name)) = sfx

\* file_name.endswith(suffix)
EndsWith(name, suffix) ==
    /\ Len(name) >= Len(suffix)
    /\ SubSeq(name, Len(name) - Len(suffix) + 1, Len(name)) = suffix

DotPo == <<".", "p", "o">>

\* the file names of the model
FileNames == {<<"a", ".", "p", "o">>, <<".", "p", "o">>,
              <<"a", ".", "p", "o", "t">>, <<"a", "p", "o">>}

\* a path is a file name in folder_path itself or in a folder below it
Paths == [name : FileNames, nested : BOOLEAN]

\* what the files of the model hold
Contents == {<<1>>, <<1, 2>>}

Folders ==
    UNION { [ps -> Contents] : ps \in {q \in SUBSET Paths : Cardinality(q) <= MaxFiles} }

\* os.listdir(folder_path) names the files of the folder itself;
\* os.walk(folder_path) also those of the folders below it
Listed(how, f) == {p \in DOMAIN f : how = "walk" \/ ~p.nested}

InitMerge ==
    /\ merger \in {"listdir", "walk"}
    /\ folder \in Folders
    /\ listing = {}
    /\ merged_po = <<>>
    /\ merged_file = Absent
    /\ mpc = "merge"

\* merge_po_files up to the loop: the folder is listed
MergePoFiles ==
    /\ mpc = "merge"
    /\ listing' = Listed(merger, folder)
    /\ mpc' = "loop"
    /\ UNCHANGED <<merger, folder, merged_po, merged_file>>
    /\ UNCHANGED nonMergeVars

\* one turn of the loop: a file whose name ends in .po is read and its
\* entries are added to merged_po. os.walk hands out the files of the folder
\* itself before those of the folders below it.
MergeFile(p) ==
    /\ mpc = "loop"
    /\ p \in listing
    /\ p.nested => \A q \in listing : q.nested
    /\ merged_po' = IF EndsWith(p.name, DotPo) THEN merged_po \o folder[p] ELSE merged_po
    /\ listing' = listing \ {p}
    /\ UNCHANGED <<merger, folder, merged_file, mpc>>
    /\ UNCHANGED nonMergeVars

\* merged_po.save(self.output_file)
MergeSave ==
    /\ mpc = "loop"
    /\ listing = {}
    /\ merged_file' = [kind |-> "po", entries |-> merged_po]
    /\ mpc' = "done"
    /\ UNCHANGED <<merger, folder, listing, merged_po>>
    /\ UNCHANGED nonMergeVars

NextMerge == MergePoFiles \/ (\E p \in Paths : MergeFile(p)) \/ MergeSave

MergeStart == InitMerge /\ IdlePool /\ IdleEntry /\ IdleSplit /\ IdleCache /\ IdleRun /\ IdleConf

SpecMerge == MergeStart /\ [][NextMerge]_vars

Count(seq, x) == Cardinality({i \in DOMAIN seq : seq[i] = x})

\* how often e occurs in the files S of the folder, all files together
RECURSIVE CountIn(_, _)
CountIn(S, e) ==
    IF S = {} THEN 0
    ELSE LET x == CHOOSE y \in S : TRUE IN Count(folder[x], e) + CountIn(S \ {x}, e)

\* the entry counts of the files S of the folder, summed
RECURSIVE EntriesIn(_)
EntriesIn(S) ==
    IF S = {} THEN 0
    ELSE LET x == CHOOSE y \in S : TRUE IN Len(folder[x]) + EntriesIn(S \ {x})

\* the files ending in .po that merge_po_files finds
PoFilesFound ==
    {p \in DOMAIN folder : /\ merger = "walk" \/ ~p.nested
                           /\ p.name[Len(p.name)] = "o"
                           /\ p.name[Len(p.name) - 1] = "p"
                           /\ p.name[Len(p.name) - 2] = "."}

\* C7: the merged catalogue holds every entry of every file ending in .po
\* that is found, as many times as it occurs in them, and nothing else: its
\* entry count is the sum of the entry counts of those files.
C7_MergeConcatenates ==
    mpc = "done" =>
        /\ merged_file.kind = "po"
        /\ Len(merged_file.entries) = EntriesIn(PoFilesFound)
        /\ \A e \in 1 .. MaxEntries :
              Count(merged_file.entries, e) = CountIn(PoFilesFound, e)

C7_Witness ==
    /\ mpc = "done"
    /\ Cardinality(PoFilesFound) >= 2
    /\ \E p \in DOMAIN folder : p \notin PoFilesFound
    /\ Count(merged_file.entries, 1) >= 2

(***************************************************************************)
(* CacheHandler, and _translate_entry with a cache handler                 *)
(***************************************************************************)

\* MAX_CACHE_SIZE = 1 * 1024 * 1024
MAX_CACHE_SIZE == 1 * 1024 * 1024

\* SQLite keeps a database file in pages of 4096 bytes; a database that holds
\* the empty table translations, with the index of its TEXT PRIMARY KEY, is
\* three pages long
PageSize == 4 * 1024
NewDbSize == 3 * PageSize

\* the handlers of the model, each owned by the worker that created it
Handlers == {"h1"}

\* Python's None, where a text is expected
NoText == <<"None">>

\* the texts a translation service may answer, the empty text among them
Answers == {<<>>, <<"x">>}

\* the languages and the translator of the run (DEFAULT_CONFIG)
SourceLang == <<"i", "d">>
TargetLang == <<"e", "n">>
TranslatorName == <<"G">>

\* the masked texts of the entries of the run
Texts == {<<"a">>, <<"a", ":", "b">>}

\* the requests of the model: those of the run, and those of an earlier run
\* in the other direction
Requests ==
    [source_lang : {SourceLang, TargetLang}, target_lang : {TargetLang},
     translator : {TranslatorName}, source_text : Texts]

RunRequest(text) ==
    [source_lang |-> SourceLang, target_lang |-> TargetLang,
     translator |-> TranslatorName, source_text |-> text]

\* hashlib.md5(...).hexdigest(): the digest stands for the text it was made
\* of (two texts with one digest are outside the model)
Md5(text) == <<"md5", text>>

\* _generate_cache_key, with the source text left out of the key
CacheKeyWithoutText(source_lang, target_lang, translator_name, source_text) ==
    Md5(source_lang \o <<":">> \o target_lang \o <<":">> \o translator_name)

\* _generate_cache_key: md5 of f"{source_lang}:{target_lang}:{translator}:{source_text}"
CacheKey(source_lang, target_lang, translator_name, source_text) ==
    Md5(source_lang \o <<":">> \o target_lang \o <<":">> \o translator_name
            \o <<":">> \o source_text)

KeyOf(r) == CacheKey(r.source_lang, r.target_lang, r.translator, r.source_text)

\* if cached_translation:
Truthy(text) == text # NoText /\ text # <<>>

\* the table translations: a set of rows, of which the model keeps the columns
\* id and translated_text
NoRows == {}
Row(key, text) == [id |-> key, translated_text |-> text]

\* an INSERT that does not look at the rows the table holds
InsertBlindly(rows, key, text) == rows \cup {Row(key, text)}

\* INSERT OR REPLACE INTO translations: id is the PRIMARY KEY, the rows that
\* hold the id are deleted and the new row is written
InsertOrReplace(rows, key, text) ==
    {row \in rows : row.id # key} \cup {Row(key, text)}

\* SELECT translated_text FROM translations WHERE id = ?, then fetchone()
Select(rows, key) ==
    IF \E row \in rows : row.id = key
    THEN (CHOOSE row \in rows : row.id = key).translated_text
    ELSE NoText

\* _open_new_cache_file: the last cache file, or the one after it when the
\* last is full; cache_0.db when there is none
OpenNewCacheFile(st) ==
    IF DOMAIN st = {} THEN 0
    ELSE LET last == CHOOSE n \in DOMAIN st : \A m \in DOMAIN st : m <= n
         IN  IF st[last].size >= MAX_CACHE_SIZE THEN last + 1 ELSE last

\* _get_connection, the files: sqlite3.connect creates the file of db_path if
\* there is none, and CREATE TABLE IF NOT EXISTS its table
ConnectStores(h) ==
    IF conn[h] = "unset" /\ db_path[h] \notin DOMAIN stores
    THEN (db_path[h] :> [size |-> NewDbSize, rows |-> NoRows]) @@ stores
    ELSE stores

\* _get_connection, the cursor: a new one only if self.local has no attribute
\* conn; after a rotation conn is None and the old cursor is handed out
ConnectCursor(h) == IF conn[h] = "unset" THEN db_path[h] ELSE cursor[h]
ConnectConn(h) == IF conn[h] = "unset" THEN "open" ELSE conn[h]

\* what get_translation of the handler answers for a request
GetTranslation(h, r) ==
    LET st == ConnectStores(h)
        c == ConnectCursor(h)
    IN  IF Select(uncommitted[h], KeyOf(r)) # NoText THEN Select(uncommitted[h], KeyOf(r))
        ELSE Select(st[c].rows, KeyOf(r))

\* the cache files an earlier run may have left
InitialRows ==
    {NoRows} \cup {{Row(KeyOf(r), a)} : r \in Requests, a \in Answers}

InitialStores ==
    {<<>>} \cup
    {0 :> [size |-> sz, rows |-> rows] :
        sz \in {NewDbSize, MAX_CACHE_SIZE - PageSize, MAX_CACHE_SIZE}, rows \in InitialRows}

\* the state before any handler is created, for the handlers H
InitCacheFor(H) ==
    /\ stores \in InitialStores
    /\ hpc = [h \in H |-> "none"]
    /\ db_path = [h \in H |-> 0]
    /\ conn = [h \in H |-> "unset"]
    /\ cursor = [h \in H |-> 0]
    /\ uncommitted = [h \in H |-> NoRows]
    /\ temp_msgid = [h \in H |-> <<>>]
    /\ cached_translation = [h \in H |-> NoText]
    /\ translated_text = [h \in H |-> NoText]
    /\ cache_msgstr = [h \in H |-> NoText]
    /\ found = [h \in H |-> FALSE]
    /\ translatorCalls = [h \in H |-> 0]
    /\ rotated = [h \in H |-> FALSE]
    /\ saveFailed = [h \in H |-> FALSE]
    /\ expected = [h \in H |-> [r \in Requests |-> NoText]]
    /\ savedRequests = [h \in H |-> {}]
    /\ entriesDone = [h \in H |-> 0]

InitCache == InitCacheFor(Handlers)

\* CacheHandler(cache_dir), at the head of _translate_entries_chunk
NewCacheHandler(h) ==
    /\ hpc[h] = "none"
    /\ hpc' = [hpc EXCEPT ![h] = "ready"]
    /\ db_path' = [db_path EXCEPT ![h] = OpenNewCacheFile(stores)]
    /\ expected' = [expected EXCEPT ![h] =
                       [r \in Requests |->
                           IF db_path'[h] \in DOMAIN stores
                           THEN Select(stores[db_path'[h]].rows, KeyOf(r))
                           ELSE NoText]]
    /\ UNCHANGED <<stores, conn, cursor, uncommitted, temp_msgid, cached_translation,
                   translated_text, cache_msgstr, found, translatorCalls, rotated,
                   saveFailed, savedRequests, entriesDone>>
    /\ UNCHANGED nonCacheVars

\* _translate_entry, the lookup: get_translation, and msgstr from the cache
\* if what it returned is true
LookupEntry(h, text) ==
    /\ hpc[h] = "ready"
    /\ entriesDone[h] < MaxCacheEntries
    /\ LET row == GetTranslation(h, RunRequest(text))
       IN  /\ cached_translation' = [cached_translation EXCEPT ![h] = row]
           /\ found' = [found EXCEPT ![h] = row # NoText]
           /\ IF Truthy(row)
              THEN /\ translated_text' = [translated_text EXCEPT ![h] = row]
                   /\ cache_msgstr' = [cache_msgstr EXCEPT ![h] = row]
                   /\ entriesDone' = [entriesDone EXCEPT ![h] = @ + 1]
                   /\ hpc' = hpc
              ELSE /\ hpc' = [hpc EXCEPT ![h] = "translate"]
                   /\ UNCHANGED <<translated_text, cache_msgstr, entriesDone>>
    /\ stores' = ConnectStores(h)
    /\ cursor' = [cursor EXCEPT ![h] = ConnectCursor(h)]
    /\ conn' = [conn EXCEPT ![h] = ConnectConn(h)]
    /\ temp_msgid' = [temp_msgid EXCEPT ![h] = text]
    /\ translatorCalls' = [translatorCalls EXCEPT ![h] = 0]
    /\ UNCHANGED <<db_path, uncommitted, rotated, saveFailed, expected, savedRequests>>
    /\ UNCHANGED nonCacheVars

\* translator.translate(temp_msgid) answers
TranslatorAnswers(h, answer) ==
    /\ hpc[h] = "translate"
    /\ translated_text' = [translated_text EXCEPT ![h] = answer]
    /\ translatorCalls' = [translatorCalls EXCEPT ![h] = @ + 1]
    /\ hpc' = [hpc EXCEPT ![h] = "save"]
    /\ UNCHANGED <<stores, db_path, conn, cursor, uncommitted, temp_msgid,
                   cached_translation, cache_msgstr, found, rotated, saveFailed,
                   expected, savedRequests, entriesDone>>
    /\ UNCHANGED nonCacheVars

\* translator.translate(temp_msgid) raises: the exception leaves the chunk
TranslatorRaises(h) ==
    /\ hpc[h] = "translate"
    /\ translatorCalls' = [translatorCalls EXCEPT ![h] = @ + 1]
    /\ hpc' = [hpc EXCEPT ![h] = "failed"]
    /\ UNCHANGED <<stores, db_path, conn, cursor, uncommitted, temp_msgid,
                   cached_translation, translated_text, cache_msgstr, found, rotated,
                   saveFailed, expected, savedRequests, entriesDone>>
    /\ UNCHANGED nonCacheVars

\* save_translation, then entry.msgstr = translated_text. The insert goes
\* through the cursor; conn.commit() raises AttributeError when conn is None.
\* The committed insert leaves the file as long as it was or a page longer.
SaveTranslation(h, growth) ==
    /\ hpc[h] = "save"
    /\ LET key == KeyOf(RunRequest(temp_msgid[h]))
           c == cursor[h]
           written == [stores EXCEPT ![c].rows = InsertOrReplace(@, key, translated_text[h]),
                                     ![c].size = @ + growth]
       IN  IF conn[h] = "None"
           THEN /\ uncommitted' = [uncommitted EXCEPT ![h] =
                                      InsertOrReplace(@, key, translated_text[h])]
                /\ saveFailed' = [saveFailed EXCEPT ![h] = TRUE]
                /\ hpc' = [hpc EXCEPT ![h] = "failed"]
                /\ UNCHANGED <<stores, db_path, conn, cache_msgstr, rotated, expected,
                               savedRequests, entriesDone>>
           ELSE /\ stores' = written
                /\ IF written[db_path[h]].size >= MAX_CACHE_SIZE
                   THEN /\ db_path' = [db_path EXCEPT ![h] = OpenNewCacheFile(written)]
                        /\ conn' = [conn EXCEPT ![h] = "None"]
                        /\ rotated' = [rotated EXCEPT ![h] = TRUE]
                   ELSE UNCHANGED <<db_path, conn, rotated>>
                /\ cache_msgstr' = [cache_msgstr EXCEPT ![h] = translated_text[h]]
                /\ expected' = [expected EXCEPT ![h][RunRequest(temp_msgid[h])] =
                                   translated_text[h]]
                /\ savedRequests' = [savedRequests EXCEPT ![h] =
                                        @ \cup {RunRequest(temp_msgid[h])}]
                /\ entriesDone' = [entriesDone EXCEPT ![h] = @ + 1]
                /\ hpc' = [hpc EXCEPT ![h] = "ready"]
                /\ UNCHANGED <<uncommitted, saveFailed>>
    /\ UNCHANGED <<cursor, temp_msgid, cached_translation, translated_text, found,
                   translatorCalls>>
    /\ UNCHANGED nonCacheVars

NextCache ==
    \/ \E h \in Handlers : NewCacheHandler(h)
    \/ \E h \in Handlers, text \in Texts : LookupEntry(h, text)
    \/ \E h \in Handlers, answer \in Answers : TranslatorAnswers(h, answer)
    \/ \E h \in Handlers : TranslatorRaises(h)
    \/ \E h \in Handlers, growth \in {0, PageSize} : SaveTranslation(h, growth)

CacheStart == InitCache /\ IdlePool /\ IdleEntry /\ IdleSplit /\ IdleMerge /\ IdleRun /\ IdleConf

SpecCache == CacheStart /\ [][NextCache]_vars

(***************************************************************************)
(* Two workers of one pool, each with the handler its chunk created, on    *)
(* the same cache directory. SQLite lets one connection write at a time,   *)
(* the other waits for the commit: the saves happen one after the other,   *)
(* in either order.                                                        *)
(***************************************************************************)
ConcurrentHandlers == {"h1", "h2"}

NextSharedCache ==
    \/ \E h \in ConcurrentHandlers : NewCacheHandler(h)
    \/ \E h \in ConcurrentHandlers, text \in Texts :
          entriesDone[h] < MaxSharedEntries /\ LookupEntry(h, text)
    \/ \E h \in ConcurrentHandlers, answer \in Answers : TranslatorAnswers(h, answer)
    \/ \E h \in ConcurrentHandlers : TranslatorRaises(h)
    \/ \E h \in ConcurrentHandlers, growth \in {0, PageSize} : SaveTranslation(h, growth)

SharedCacheStart ==
    /\ InitCacheFor(ConcurrentHandlers)
    /\ IdlePool /\ IdleEntry /\ IdleSplit /\ IdleMerge /\ IdleRun /\ IdleConf

SpecSharedCache == SharedCacheStart /\ [][NextSharedCache]_vars

\* the handlers that have saved request r into the store handler h writes to
SaversOf(h, r) ==
    {g \in DOMAIN hpc : r \in savedRequests[g] /\ cursor[g] = cursor[h]}

\* C11: a store never holds two rows with one id, also when two workers that
\* both missed on a request save it one after the other; the row a store
\* holds for a saved request is the text of the last save of one of the
\* handlers that saved it there.
C11_KeyUniqueness ==
    /\ \A n \in DOMAIN stores :
          \A row1, row2 \in stores[n].rows : row1.id = row2.id => row1 = row2
    /\ \A h \in DOMAIN hpc : \A r \in savedRequests[h] :
          Select(stores[cursor[h]].rows, KeyOf(r)) \in {expected[g][r] : g \in SaversOf(h, r)}

C11_Witness ==
    \E r \in Requests :
        /\ \A h \in ConcurrentHandlers :
              /\ r \in savedRequests[h]
              /\ cached_translation[h] = NoText
              /\ temp_msgid[h] = r.source_text
        /\ cursor["h1"] = cursor["h2"]
        /\ expected["h1"][r] # expected["h2"][r]

\* C8: when the cache holds a record for the request of the entry, no
\* translator call is made and msgstr is the cached text; on a miss the
\* translator is called exactly once and its answer is stored under the key
\* of the request before msgstr is written.
C8_CacheLookupBeforeCall ==
    \A h \in Handlers :
        /\ found[h] => translatorCalls[h] = 0
        /\ (found[h] /\ hpc[h] = "ready") => cache_msgstr[h] = cached_translation[h]
        /\ (~found[h] /\ hpc[h] = "ready" /\ entriesDone[h] > 0) =>
              /\ translatorCalls[h] = 1
              /\ cache_msgstr[h] = translated_text[h]
              /\ GetTranslation(h, RunRequest(temp_msgid[h])) = translated_text[h]

\* C9: as long as the handler has not rotated, get_translation answers, for
\* every request, the text last stored for it: no save for another request
\* has removed or changed it.
C9_NoEviction ==
    \A h \in Handlers :
        (hpc[h] # "none" /\ ~rotated[h]) =>
            \A r \in Requests : GetTranslation(h, r) = expected[h][r]

C9_Witness ==
    \E h \in Handlers :
        /\ ~rotated[h]
        /\ Cardinality(savedRequests[h]) >= 2
        /\ \E r \in Requests : r \notin savedRequests[h] /\ Truthy(expected[h][r])
        /\ \E r \in savedRequests[h] : Truthy(GetTranslation(h, r))

\* C10: after the save that rotates the handler to the next store, every
\* later save_translation and get_translation completes without error.
C10_RotationKeepsWorking ==
    \A h \in Handlers : rotated[h] => ~saveFailed[h]

(***************************************************************************)
(* One run of the program over a folder: PoFileProcessor.process for each  *)
(* file. translate_po_file is one step here; what it can come to is what   *)
(* Spec shows: every call answers and new_data is the catalogue of the     *)
(* translated entries, or a call raises, the flag of the main process is   *)
(* set and new_data stays None.                                            *)
(***************************************************************************)

\* os.path.splitext(file_name)[0]: the name up to its last dot; a name whose
\* only dots are at its head has no extension
SplitExtRoot(name) ==
    LET dots == {i \in DOMAIN name : name[i] = "." /\ \E j \in 1 .. i - 1 : name[j] # "."}
    IN  IF dots = {} THEN name
        ELSE SubSeq(name, 1, (CHOOSE i \in dots : \A j \in dots : j <= i) - 1)

OutputFolder == <<"o", "u", "t">>
I18n == <<"i", "1", "8", "n">>

\* a path is the sequence of the names os.path.join puts together
\* write_output_file with the extension of the input left in the name
OutputFilePathWithExt(odoo, file_name) ==
    IF odoo
    THEN <<OutputFolder, file_name, I18n, TargetLang \o DotPo>>
    ELSE <<OutputFolder, file_name \o <<"_">> \o TargetLang \o DotPo>>

\* write_output_file: output_file_path
OutputFilePath(odoo, file_name) ==
    IF odoo
    THEN <<OutputFolder, SplitExtRoot(file_name), I18n, TargetLang \o DotPo>>
    ELSE <<OutputFolder, SplitExtRoot(file_name) \o <<"_">> \o TargetLang \o DotPo>>

\* the path of the output file in the layout that is not the one asked for
TestedFilePathOtherLayout(odoo, file_name) ==
    IF odoo
    THEN <<OutputFolder, SplitExtRoot(file_name) \o <<"_">> \o TargetLang \o DotPo>>
    ELSE <<OutputFolder, SplitExtRoot(file_name), I18n, TargetLang \o DotPo>>

\* process: output_file_path, the path tested with os.path.exists
TestedFilePath(odoo, file_name) ==
    IF odoo
    THEN <<OutputFolder, SplitExtRoot(file_name), I18n, TargetLang \o DotPo>>
    ELSE <<OutputFolder, SplitExtRoot(file_name) \o <<"_">> \o TargetLang \o DotPo>>

\* what _read_file returns: None for a file that cannot be read, the text of
\* the file otherwise, which is empty or a catalogue
Unreadable == [kind |-> "None"]
EmptyText == [kind |-> "empty"]
Text(cat) == [kind |-> "text", po |-> cat]

\* what an output file holds: what an earlier run left, a catalogue, nothing
OldOutput == [kind |-> "old"]
PoOutput(entries) == [kind |-> "po", entries |-> entries]
EmptyOutput == [kind |-> "empty"]

\* the msgid of an entry that has none (msgid "")
NoMsgid == 0

\* a test of self.data that every data passes
AnyData(data) == TRUE

\* if self.data:
HasData(data) == data.kind = "text"

\* polib.pofile(self.data)
PoFileOf(data) == IF data.kind = "text" THEN data.po ELSE <<>>

\* the catalogues of the files of a folder: one without entries, one with
\* MaxRunEntries untranslated entries
RunCatalogues == {[i \in 1 .. n |-> Entry(i, Untranslated)] : n \in {0, MaxRunEntries}}
RunData == {Unreadable, EmptyText} \cup {Text(cat) : cat \in RunCatalogues}

RECURSIVE Listings(_)
Listings(n) ==
    IF n = 0 THEN {<<>>}
    ELSE LET shorter == Listings(n - 1)
         IN  shorter \cup
             {Append(l, [name |-> nm, data |-> dt]) :
                 l \in {k \in shorter : Len(k) = n - 1}, nm \in FileNames, dt \in RunData}

DistinctNames(l) == \A i, j \in DOMAIN l : l[i].name = l[j].name => i = j

\* file_name.endswith('.po') or file_name.endswith('.pot')
IsPoOrPot(name) == EndsWith(name, DotPo) \/ EndsWith(name, DotPo \o <<"t">>)

InitRun ==
    /\ program \in {"main", "standalone"}
    /\ folder_listing \in {l \in Listings(MaxRunFiles) : DistinctNames(l)}
    /\ files = <<>>
    /\ force \in (IF program = "main" THEN BOOLEAN ELSE {FALSE})
    /\ odoo_output \in BOOLEAN
    /\ \E present \in SUBSET {folder_listing[i].name : i \in DOMAIN folder_listing} :
          disk = [path \in {OutputFilePath(odoo_output, nm) : nm \in present} |-> OldOutput]
    /\ error_flag = FALSE
    /\ file_index = 0
    /\ rpc = "list"
    /\ file_log = <<>>

\* the list of the .po and .pot files of the folder
ListFolder ==
    /\ rpc = "list"
    /\ files' = SelectSeq(folder_listing, LAMBDA f : IsPoOrPot(f.name))
    /\ rpc' = "loop"
    /\ UNCHANGED <<program, folder_listing, force, odoo_output, disk, error_flag,
                   file_index, file_log>>
    /\ UNCHANGED nonRunVars

\* a loop that goes on whatever the flags say
NeverStopping(flag) == FALSE

\* if shutdown_flag or translation_error_flag:
Stopping(flag) == shutdown_flag \/ flag

\* process_files_in_folder: if shutdown_flag or translation_error_flag: break
LoopBreak ==
    /\ rpc = "loop" /\ program = "main"
    /\ file_index < Len(files)
    /\ Stopping(error_flag)
    /\ rpc' = "done"
    /\ UNCHANGED <<program, folder_listing, files, force, odoo_output, disk, error_flag,
                   file_index, file_log>>
    /\ UNCHANGED nonRunVars

MsgidsOf(entries) == {entries[k].msgid : k \in DOMAIN entries}

\* one turn of the loop of the package: PoFileProcessor(file_path, ...) and
\* process(). The translator raises for the entries of failing; called are
\* the entries the workers got to.
ProcessFile(failing, called) ==
    /\ rpc = "loop" /\ program = "main"
    /\ file_index < Len(files)
    /\ ~Stopping(error_flag)
    /\ LET f == files[file_index + 1]
           tested == TestedFilePath(odoo_output, f.name)
           skipped == ~force /\ tested \in DOMAIN disk
           translating == ~skipped /\ HasData(f.data)
           entries == IF translating THEN untranslated_entries(PoFileOf(f.data)) ELSE <<>>
           translated == [k \in DOMAIN entries |->
                            Entry(entries[k].msgid, TranslatorOutput(entries[k].msgid))]
           new == IF translating /\ failing = {} THEN PoOutput(translated) ELSE None
           written == OutputFilePath(odoo_output, f.name)
       IN  /\ failing \subseteq called
           /\ called \subseteq MsgidsOf(entries)
           /\ failing = {} => called = MsgidsOf(entries)
           /\ error_flag' = (error_flag \/ failing # {})
           /\ disk' = IF new # None THEN (written :> new) @@ disk ELSE disk
           /\ file_log' = Append(file_log,
                  [name |-> f.name, data |-> f.data, tested |-> tested,
                   skipped |-> skipped, called |-> called, failing |-> failing,
                   written |-> IF new # None THEN written ELSE None,
                   new_data |-> new, before |-> disk, after |-> disk',
                   flag |-> error_flag'])
    /\ file_index' = file_index + 1
    /\ UNCHANGED <<program, folder_listing, files, force, odoo_output, rpc>>
    /\ UNCHANGED nonRunVars

\* translate_po_file leaving out the entries the translator raises for
TranslateDropping(cat, failing) ==
    LET kept == SelectSeq(cat, LAMBDA e : e.msgid \notin failing)
    IN  [k \in DOMAIN kept |->
            IF kept[k].msgid # NoMsgid
            THEN Entry(kept[k].msgid, TranslatorOutput(kept[k].msgid))
            ELSE kept[k]]

\* PoFileTranslator.translate_po_file of the standalone program: every entry
\* with a msgid is handed to translate_entry, which answers None for the
\* entries the translator raises for; the others get their translation
TranslateSkipping(cat, failing) ==
    [k \in DOMAIN cat |->
        IF cat[k].msgid # NoMsgid /\ cat[k].msgid \notin failing
        THEN Entry(cat[k].msgid, TranslatorOutput(cat[k].msgid))
        ELSE cat[k]]

\* one turn of the loop of main() of the standalone program: process_file.
\* open(output_file_path, "w") empties the file before write(None) raises.
ProcessFileStandalone(failing) ==
    /\ rpc = "loop" /\ program = "standalone"
    /\ file_index < Len(files)
    /\ LET f == files[file_index + 1]
           read == f.data # Unreadable
           entries == IF HasData(f.data) THEN PoFileOf(f.data) ELSE <<>>
           called == MsgidsOf(entries) \ {NoMsgid}
           new == IF HasData(f.data) THEN PoOutput(TranslateSkipping(entries, failing))
                  ELSE None
           written == OutputFilePath(odoo_output, f.name)
       IN  /\ failing \subseteq called
           /\ disk' = IF ~read THEN disk
                      ELSE IF new # None THEN (written :> new) @@ disk
                      ELSE (written :> EmptyOutput) @@ disk
           /\ file_log' = Append(file_log,
                  [name |-> f.name, data |-> f.data, tested |-> None,
                   skipped |-> FALSE, called |-> called, failing |-> failing,
                   written |-> IF read THEN written ELSE None,
                   new_data |-> new, before |-> disk, after |-> disk',
                   flag |-> error_flag])
    /\ file_index' = file_index + 1
    /\ UNCHANGED <<program, folder_listing, files, force, odoo_output, error_flag, rpc>>
    /\ UNCHANGED nonRunVars

\* the loop has gone through the files
RunEnd ==
    /\ rpc = "loop"
    /\ file_index = Len(files)
    /\ rpc' = "done"
    /\ UNCHANGED <<program, folder_listing, files, force, odoo_output, disk, error_flag,
                   file_index, file_log>>
    /\ UNCHANGED nonRunVars

RunMsgids == 0 .. MaxRunEntries

NextRun ==
    \/ ListFolder
    \/ LoopBreak
    \/ \E failing \in SUBSET RunMsgids, called \in SUBSET RunMsgids : ProcessFile(failing, called)
    \/ \E failing \in SUBSET RunMsgids : ProcessFileStandalone(failing)
    \/ RunEnd

RunStart == InitRun /\ IdlePool /\ IdleEntry /\ IdleSplit /\ IdleMerge /\ IdleCache /\ IdleConf

SpecRun == RunStart /\ [][NextRun]_vars

\* C12: a file that cannot be read costs no translator call, leaves the
\* output folder as it was and the error flag unset, and the loop goes on to
\* the file after it.
C12_ReadErrorSkipsFile ==
    \A i \in DOMAIN file_log :
        file_log[i].data = Unreadable =>
            /\ file_log[i].called = {}
            /\ file_log[i].written = None
            /\ file_log[i].after = file_log[i].before
            /\ ~file_log[i].flag
            /\ (rpc = "done" /\ i < Len(files)) => Len(file_log) > i

C12_Witness ==
    /\ rpc = "done" /\ program = "main"
    /\ Len(file_log) = 2
    /\ file_log[1].data = Unreadable
    /\ file_log[2].written # None

(***************************************************************************)
(* The standalone program over one file: entries with and without a msgid, *)
(* translated already or not.                                              *)
(***************************************************************************)

StandaloneCatalogues ==
    UNION { { [i \in 1 .. n |->
                  Entry(IF named[i] THEN i ELSE NoMsgid,
                        IF done[i] THEN OldTranslation(i) ELSE Untranslated)]
              : named \in [1 .. n -> BOOLEAN], done \in [1 .. n -> BOOLEAN] }
            : n \in 0 .. MaxStandaloneEntries }

InitStandalone ==
    /\ program = "standalone"
    /\ \E cat \in StandaloneCatalogues :
          folder_listing = <<[name |-> <<"a", ".", "p", "o">>, data |-> Text(cat)]>>
    /\ files = <<>>
    /\ force = FALSE
    /\ odoo_output \in BOOLEAN
    /\ disk \in {<<>>, OutputFilePath(odoo_output, <<"a", ".", "p", "o">>) :> OldOutput}
    /\ error_flag = FALSE
    /\ file_index = 0
    /\ rpc = "list"
    /\ file_log = <<>>

NextStandalone ==
    \/ ListFolder
    \/ \E failing \in SUBSET (1 .. MaxStandaloneEntries) : ProcessFileStandalone(failing)
    \/ RunEnd

StandaloneStart ==
    InitStandalone /\ IdlePool /\ IdleEntry /\ IdleSplit /\ IdleMerge /\ IdleCache /\ IdleConf

SpecStandalone == StandaloneStart /\ [][NextStandalone]_vars

C22_StickyErrorFlag ==
    program = "main" =>
        \A i \in DOMAIN file_log :
            file_log[i].failing # {} =>
                /\ error_flag
                /\ i = Len(file_log)
                /\ disk = file_log[i].before

C22_Witness ==
    /\ program = "main"
    /\ rpc = "done"
    /\ Len(files) > Len(file_log)
    /\ \E i \in DOMAIN file_log : file_log[i].failing # {}
    /\ HasData(files[Len(files)].data)

\* C15: in the package, without force a file whose output file exists costs
\* no translator call and leaves the output folder as it was; with force it
\* is translated, and when every call answers the output file holds the new
\* catalogue.
C15_ForceOverwrite ==
    \A i \in DOMAIN file_log :
        LET r == file_log[i]
            path == OutputFilePath(odoo_output, r.name)
        IN  (program = "main" /\ path \in DOMAIN r.before) =>
                /\ ~force => (r.called = {} /\ r.after = r.before)
                /\ (force /\ HasData(r.data) /\ r.failing = {}) =>
                      /\ r.called = MsgidsOf(r.data.po)
                      /\ r.after[path] = PoOutput([k \in DOMAIN r.data.po |->
                            Entry(r.data.po[k].msgid, TranslatorOutput(r.data.po[k].msgid))])

C15_Witness ==
    \E i \in DOMAIN file_log :
        /\ program = "main" /\ ~force
        /\ OutputFilePath(odoo_output, file_log[i].name) \in DOMAIN file_log[i].before
        /\ HasData(file_log[i].data) /\ file_log[i].data.po # <<>>

\* <name> of a file name <name>.po or <name>.pot
Stem(name) ==
    IF EndsWith(name, DotPo \o <<"t">>) THEN SubSeq(name, 1, Len(name) - 4)
    ELSE SubSeq(name, 1, Len(name) - 3)

\* <output_folder>/<name>/i18n/<lang>.po and <output_folder>/<name>_<lang>.po
ExpectedPath(odoo, name) ==
    IF odoo THEN <<OutputFolder, Stem(name), <<"i", "1", "8", "n">>, <<"e", "n", ".", "p", "o">>>>
    ELSE <<OutputFolder, Stem(name) \o <<"_", "e", "n", ".", "p", "o">>>>

\* C16: the output of <name>.<ext> is written to <output_folder>/<name>/i18n/
\* <lang>.po with Odoo output and to <output_folder>/<name>_<lang>.po without,
\* and the path process() tests is the path write_output_file writes.
C16_OutputLocation ==
    \A i \in DOMAIN file_log :
        LET r == file_log[i]
        IN  r.written # None =>
                /\ Stem(r.name) # <<>> =>
                      /\ r.written = ExpectedPath(odoo_output, r.name)
                      /\ r.new_data # None => r.after[ExpectedPath(odoo_output, r.name)] = r.new_data
                /\ program = "main" => r.tested = r.written

C16_Witness ==
    \E i \in DOMAIN file_log :
        /\ program = "main" /\ odoo_output
        /\ file_log[i].name = <<"a", ".", "p", "o", "t">>
        /\ file_log[i].written # None
        /\ file_log[i].data.po # <<>>

(***************************************************************************)
(* ConfigHandler: __init__, _determine_config_dir and _load_config         *)
(***************************************************************************)

\* a path is absolute or relative and has components
Path(absolute, components) == [abs |-> absolute, parts |-> components]
NoPath == Path(FALSE, <<>>)

Cwd == Path(TRUE, <<"work">>)
HomeConfigDir == Path(TRUE, <<"home", ".translator_po">>)
PackageDir == Path(TRUE, <<"pkg">>)

\* os.path.join(a, b): an absolute b discards a
Join(a, b) == IF b.abs THEN b ELSE Path(a.abs, a.parts \o b.parts)
\* os.path.abspath(p)
AbsPath(p) == IF p.abs THEN p ELSE Join(Cwd, p)
\* os.path.dirname(p)
DirName(p) == Path(p.abs, SubSeq(p.parts, 1, Len(p.parts) - 1))
\* the directories os.makedirs(p, exist_ok=True) leaves in place
WithParents(p) == {Path(TRUE, SubSeq(p.parts, 1, n)) : n \in 0 .. Len(p.parts)}

DEFAULT_CONFIG ==
    [translator |-> "GoogleTranslator", source_lang |-> "id", target_lang |-> "en",
     max_msgid_length |-> DefaultMaxMsgidLength,
     DeeplTranslator |-> [api_key |-> "", use_free_api |-> TRUE]]
UserConfig ==
    [translator |-> "DeeplTranslator", source_lang |-> "en", target_lang |-> "fr",
     max_msgid_length |-> ShortMaxLength,
     DeeplTranslator |-> [api_key |-> "k", use_free_api |-> FALSE]]
ConfigWithoutTranslator == [source_lang |-> "en", target_lang |-> "fr"]

\* json.dump(config, config_file, indent=4): the text of a JSON object
Dump(c) == [json |-> "object", members |-> c]
NotJson == [json |-> "no"]
IsJson(text) == text.json = "object"
\* json.load(config_file) of the text of a JSON object
Load(text) == text.members
FileContents == {Dump(DEFAULT_CONFIG), Dump(UserConfig), Dump(ConfigWithoutTranslator), NotJson}

\* the config_file arguments: a bare name, a name under a folder, an absolute path
ConfigFileArgs ==
    {Path(FALSE, <<"config.json">>), Path(FALSE, <<"conf", "config.json">>),
     Path(TRUE, <<"etc", "config.json">>)}

\* _determine_config_dir
DetermineConfigDir(cli, inst) ==
    IF cli # NoPath THEN DirName(AbsPath(cli))
    ELSE IF inst THEN HomeConfigDir ELSE PackageDir

\* self.config_path = os.path.join(self.config_dir, config_file)
ConfigPath(dir, file) == Join(dir, file)

BaseDirs == {Path(TRUE, <<>>), Cwd, PackageDir, Path(TRUE, <<"home">>)}
MoreDirs ==
    {Path(TRUE, <<"work", "conf">>), Path(TRUE, <<"work", "conf", "conf">>),
     Path(TRUE, <<"etc">>)}
ConfigPaths ==
    {ConfigPath(DetermineConfigDir(cli, inst), file) :
        cli \in ConfigFileArgs \cup {NoPath}, inst \in BOOLEAN, file \in ConfigFileArgs}

InitConf ==
    /\ config_file \in ConfigFileArgs
    /\ cli_config_path \in {NoPath, config_file}
    /\ installed \in BOOLEAN
    /\ config_dir = NoPath
    /\ config_path = NoPath
    /\ config = <<>>
    /\ \E more \in SUBSET MoreDirs :
          fs_dirs = UNION {WithParents(dir) : dir \in BaseDirs \cup more}
    /\ \E present \in {ps \in SUBSET ConfigPaths : Cardinality(ps) <= 1} :
          /\ \A f \in present : DirName(f) \in fs_dirs
          /\ fs_files \in [present -> FileContents]
    /\ files_before = fs_files
    /\ cpc = "init"

\* ConfigHandler.__init__ up to the call of _load_config
NewConfigHandler ==
    /\ cpc = "init"
    /\ config_dir' = DetermineConfigDir(cli_config_path, installed)
    /\ config_path' = ConfigPath(config_dir', config_file)
    /\ cpc' = "load"
    /\ UNCHANGED <<config_file, cli_config_path, installed, config, fs_dirs, fs_files,
                   files_before>>
    /\ UNCHANGED nonConfVars

\* _load_config: os.makedirs and the creation of a missing file; open(.., 'w')
\* raises FileNotFoundError when the folder of the path is missing
LoadConfigCreate ==
    /\ cpc = "load"
    /\ fs_dirs' = fs_dirs \cup WithParents(config_dir)
    /\ IF config_path \in DOMAIN fs_files
       THEN /\ cpc' = "read"
            /\ UNCHANGED fs_files
       ELSE IF DirName(config_path) \in fs_dirs'
            THEN /\ fs_files' = [f \in DOMAIN fs_files \cup {config_path} |->
                                    IF f = config_path THEN Dump(DEFAULT_CONFIG)
                                    ELSE fs_files[f]]
                 /\ cpc' = "read"
            ELSE /\ cpc' = "raised"
                 /\ UNCHANGED fs_files
    /\ UNCHANGED <<config_file, cli_config_path, installed, config_dir, config_path,
                   config, files_before>>
    /\ UNCHANGED nonConfVars

\* _load_config: json.load and the log line that reads config['translator']
LoadConfigRead ==
    /\ cpc = "read"
    /\ LET text == fs_files[config_path]
       IN  IF IsJson(text) /\ "translator" \in DOMAIN Load(text)
           THEN /\ config' = Load(text)
                /\ cpc' = "done"
           ELSE /\ cpc' = "raised"
                /\ UNCHANGED config
    /\ UNCHANGED <<config_file, cli_config_path, installed, config_dir, config_path,
                   fs_dirs, fs_files, files_before>>
    /\ UNCHANGED nonConfVars

NextConf == NewConfigHandler \/ LoadConfigCreate \/ LoadConfigRead

ConfStart ==
    InitConf /\ IdlePool /\ IdleEntry /\ IdleSplit /\ IdleMerge /\ IdleCache /\ IdleRun

SpecConf == ConfStart /\ [][NextConf]_vars

\* C18: once the creation of a ConfigHandler has ended: if the configuration
\* file (config_path) did not exist, it exists and holds DEFAULT_CONFIG and
\* the loaded configuration is DEFAULT_CONFIG; if it existed (holding a JSON
\* object), no file has changed and the loaded configuration is its content.
C18_ConfigLoader ==
    cpc \in {"done", "raised"} =>
        IF config_path \notin DOMAIN files_before
        THEN /\ cpc = "done"
             /\ config_path \in DOMAIN fs_files
             /\ fs_files[config_path] = Dump(DEFAULT_CONFIG)
             /\ config = DEFAULT_CONFIG
        ELSE IsJson(files_before[config_path]) =>
                /\ cpc = "done"
                /\ fs_files = files_before
                /\ config = Load(files_before[config_path])


(***************************************************************************)
(* Claims about the driver                                                 *)
(***************************************************************************)

\* C2: if the translation of any entry of the file raises, the error flag of
\* the main process is set by the time translate_po_file returns, new_data
\* stays None and no output file is written, whichever worker failed and
\* whatever the other workers had translated.
C2_AbortWholeFile ==
    raised => /\ new_data = None
              /\ output = Absent
              /\ (pc \in {"write", "done"} => translation_error_flag[MainProc])

C2_Witness ==
    /\ pc = "done" /\ raised /\ pool = "process"
    /\ results # <<>> /\ results[1] # <<>>

\* C3: once the first failure has set the error flag, every worker of the
\* pool, thread or process, stops before another entry: no worker begins
\* more than one translator call after the failure.
C3_AtMostOneCallAfterFailure ==
    \A w \in Workers : callsAfter[w] <= 1

\* C14: during the run over a file the translator is called at most once for
\* each entry, whether the call answered or raised.
C14_NoRetry ==
    \A id \in DOMAIN calls : calls[id] <= 1

C14_Witness ==
    /\ pc = "done" /\ raised
    /\ Cardinality({id \in DOMAIN calls : calls[id] = 1}) >= 2

\* C19: the chunks built by translate_po_file are non-empty and contiguous
\* and partition the untranslated entries (joined in their order they are
\* the list of the untranslated entries, every entry is in exactly one
\* chunk), and at no time are more than jobs chunks being translated, also
\* when there are more chunks than jobs.
C19_PoolOverPartition ==
    /\ pc # "translate" =>
          /\ \A c \in DOMAIN chunks : chunks[c] # <<>>
          /\ Flatten(chunks) = untranslated_entries(po)
          /\ \A e \in {po[i] : i \in DOMAIN po} :
                e.msgstr = Untranslated =>
                   Cardinality({<<c, j>> \in (DOMAIN chunks) \X (1 .. MaxEntries) :
                                   j \in DOMAIN chunks[c] /\ chunks[c][j] = e}) = 1
    /\ Cardinality({c \in DOMAIN fut : fut[c] = "running"}) <= jobs
    /\ Cardinality({w \in DOMAIN wk : wk[w].pc # "idle"}) <= jobs

C19_Witness ==
    /\ Len(chunks) > jobs
    /\ jobs > 1
    /\ Cardinality({c \in DOMAIN fut : fut[c] = "running"}) = jobs
    /\ \E c \in DOMAIN fut : fut[c] = "pending"

\* C21: when translate_po_file succeeds (new_data is set), every entry of the
\* input catalogue that already had a translation is in the output catalogue
\* with its msgid and msgstr unchanged.
C21_TranslatedPreserved ==
    new_data # None =>
        \A i \in DOMAIN po :
            po[i].msgstr # Untranslated =>
                \E j \in DOMAIN new_data.entries : new_data.entries[j] = po[i]

\* C23: whenever write_output_file has written a file, the file holds
\* new_data, and new_data was built from the complete result of every chunk:
\* every chunk ended with a result as long as the chunk, holding the chunk's
\* entries in their order, and every such result was collected once; no
\* result is empty or cut short by a worker that saw a flag.
C23_OutputNeverPartial ==
    output # Absent =>
        /\ output = new_data
        /\ new_data.entries = Flatten(results)
        /\ Len(results) = Len(chunks)
        /\ \A c \in DOMAIN chunks :
              /\ fut[c] = "done"
              /\ Len(fres[c]) = Len(chunks[c])
              /\ \A k \in DOMAIN chunks[c] : fres[c][k].msgid = chunks[c][k].msgid
              /\ Cardinality({k \in DOMAIN results : results[k] = fres[c]}) = 1

C23_Witness ==
    /\ output # Absent
    /\ pool = "process"
    /\ Len(chunks) > jobs
    /\ results[1] # fres[1]

\* C24: when every translator call returns or raises and every thread and
\* process that can take a step eventually takes one, translate_po_file
\* returns, and it returns with exactly one of two outcomes: new_data is set
\* or translation_error_flag of the main process is set.
C24_Termination ==
    <>[](/\ pc \in {"write", "done"}
         /\ (new_data # None) # translation_error_flag[MainProc])

C24_Witness ==
    /\ pc = "done"
    /\ translation_error_flag[MainProc]
    /\ new_data = None
    /\ Len(chunks) > jobs
    /\ \E c \in DOMAIN fut : fut[c] = "cancelled"

\* C4: when translate_po_file succeeds, every untranslated entry of the input
\* is in the output exactly once, and the (msgid, msgstr) pairs written are
\* those the input determines, whatever the order the chunks completed in.
C4_Reassembly ==
    (pc = "done" /\ new_data # None) =>
        LET out == new_data.entries
            U == untranslated_entries(po)
        IN  /\ output = new_data
            /\ Len(out) = Len(U)
            /\ \A k \in DOMAIN U :
                   Cardinality({j \in DOMAIN out : out[j].msgid = U[k].msgid}) = 1
            /\ {<<out[j].msgid, out[j].msgstr>> : j \in DOMAIN out}
                   = {<<U[k].msgid, TranslatorOutput(U[k].msgid)>> : k \in DOMAIN U}

C4_Witness ==
    /\ pc = "done" /\ new_data # None
    /\ Len(results) >= 2
    /\ new_data.entries[1].msgid # untranslated_entries(po)[1].msgid

=============================================================================
